---- MODULE Spec2Model ----
(***************************************************************************)
(* Offset suballocator (two-level segregated fit) of offsetAllocator.c.    *)
(*                                                                         *)
(* Representation.  A 32-bit or 8-bit bit mask (m_usedBinsTop,             *)
(* m_usedBins[i]) is the set of the positions of its set bits, so          *)
(* x & (1 << i) is "i \in x", x |= 1 << i is "x \cup {i}" and              *)
(* x &= ~(1 << i) is "x \ {i}".  The all-ones sentinels NODE_UNUSED and    *)
(* NO_SPACE (0xffffffff, i.e. (uint32)-1) are written -1.  Sizes and       *)
(* offsets are naturals; within the bounds below no uint32 operation of    *)
(* the allocator wraps.                                                    *)
(***************************************************************************)
EXTENDS Integers, Naturals, Sequences, FiniteSets, TLC

(* ---- bounds of the model ---- *)
(* largest total size given to initAllocator, and largest request *)
MaxSize == 17
(* largest max_allocs given to initAllocator (size of the node pool) *)
MaxAllocs == 4
(* freeAllocation calls explored after each initAllocator / resetAllocator *)
MaxFrees == 2

(* ---- program constants ---- *)
MANTISSA_BITS == 3
MANTISSA_VALUE == 8
MANTISSA_MASK == 7
NODE_UNUSED == -1
NO_SPACE == -1
NUM_TOP_BINS == 32
BINS_PER_LEAF == 8
TOP_BINS_INDEX_SHIFT == 3
LEAF_BINS_INDEX_MASK == 7
NUM_LEAF_BINS == NUM_TOP_BINS * BINS_PER_LEAF

EmptyAllocation == [offset |-> NO_SPACE, metadata |-> NO_SPACE]

VARIABLES m_size, m_maxAllocs, m_freeStorage, m_usedBinsTop, m_usedBins,
          m_binIndices, m_nodes, m_freeNodes, m_freeOffset,
          allocs, res, report, lastOp, nFrees, snap, enc

allocVars == <<m_size, m_maxAllocs, m_freeStorage, m_usedBinsTop, m_usedBins,
               m_binIndices, m_nodes, m_freeNodes, m_freeOffset>>
vars == <<m_size, m_maxAllocs, m_freeStorage, m_usedBinsTop, m_usedBins,
          m_binIndices, m_nodes, m_freeNodes, m_freeOffset,
          allocs, res, report, lastOp, nFrees, snap, enc>>

(* ---- bit helpers ---- *)
Pow2(n) == 2 ^ n
ShiftRight(v, n) == v \div Pow2(n)
ShiftLeft(v, n) == v * Pow2(n)
(* v & mask for a mask of the form 2^k - 1 *)
AndMask(v, mask) == v % (mask + 1)
MinOf(S) == CHOOSE x \in S : \A y \in S : x <= y
MaxOf(S) == CHOOSE x \in S : \A y \in S : x >= y

RECURSIVE highestSetBit(_)
highestSetBit(v) == IF v <= 1 THEN 0 ELSE 1 + highestSetBit(v \div 2)

(* __builtin_ctz on a mask: position of the lowest set bit *)
tzcnt_nonzero(mask) == MinOf(mask)
(* 31 - __builtin_clz on a mask: position of the highest set bit *)
highestBitOfMask(mask) == MaxOf(mask)

(* ---- size encoding ---- *)
uintToFloatRoundUp(size) ==
    IF size < MANTISSA_VALUE
    THEN size
    ELSE LET mantissaStartBit == highestSetBit(size) - MANTISSA_BITS
             exp == mantissaStartBit + 1
             mantissa == AndMask(ShiftRight(size, mantissaStartBit),
                                 MANTISSA_MASK)
             lowBitsMask == ShiftLeft(1, mantissaStartBit) - 1
         IN  ShiftLeft(exp, MANTISSA_BITS)
               + (IF AndMask(size, lowBitsMask) # 0
                  THEN mantissa + 1 ELSE mantissa)

uintToFloatRoundDown(size) ==
    IF size < MANTISSA_VALUE
    THEN size
    ELSE LET mantissaStartBit == highestSetBit(size) - MANTISSA_BITS
             exp == mantissaStartBit + 1
             mantissa == AndMask(ShiftRight(size, mantissaStartBit),
                                 MANTISSA_MASK)
         IN  ShiftLeft(exp, MANTISSA_BITS) + mantissa

floatToUint(floatValue) ==
    LET exponent == ShiftRight(floatValue, MANTISSA_BITS)
        mantissa == AndMask(floatValue, MANTISSA_MASK)
    IN  IF exponent = 0
        THEN mantissa
        ELSE ShiftLeft(mantissa + MANTISSA_VALUE, exponent - 1)

(* ---- the size encoding over the whole uint32 range ---- *)
(* A uint32 that can exceed the range of the model's integers is held as   *)
(* the set of the positions of its set bits, like the bit masks.           *)
WordBits == 32
BitPositions == 0..(WordBits - 1)
(* the word of a natural below 2^31 *)
Bits(n) == {i \in 0..(WordBits - 2) : (n \div Pow2(i)) % 2 = 1}
RECURSIVE Value(_)
(* the natural of a word below 2^31 *)
Value(w) == IF w = {} THEN 0
            ELSE LET b == CHOOSE x \in w : TRUE
                 IN  Pow2(b) + Value(w \ {b})
(* w >> n *)
ShrW(w, n) == {b - n : b \in {x \in w : x >= n}}
(* w << n in 32 bits: the bits shifted past bit 31 are lost *)
ShlW(w, n) == {b + n : b \in {x \in w : x + n < WordBits}}
(* unsigned a < b, a <= b *)
LessW(a, b) == \E i \in b \ a : \A k \in BitPositions :
                   k > i => (k \in a <=> k \in b)
LeqW(a, b) == a = b \/ LessW(a, b)

uintToFloatRoundUpW_trunc(size) ==
    IF LessW(size, Bits(MANTISSA_VALUE))
    THEN Value(size)
    ELSE LET mantissaStartBit == MaxOf(size) - MANTISSA_BITS
             exp == mantissaStartBit + 1
             mantissa == Value(ShrW(size, mantissaStartBit)
                                 \cap Bits(MANTISSA_MASK))
         IN  ShiftLeft(exp, MANTISSA_BITS) + mantissa

uintToFloatRoundUpW(size) ==
    IF LessW(size, Bits(MANTISSA_VALUE))
    THEN Value(size)
    ELSE LET mantissaStartBit == MaxOf(size) - MANTISSA_BITS
             exp == mantissaStartBit + 1
             mantissa == Value(ShrW(size, mantissaStartBit)
                                 \cap Bits(MANTISSA_MASK))
             lowBitsMask == 0..(mantissaStartBit - 1)
         IN  ShiftLeft(exp, MANTISSA_BITS)
               + (IF size \cap lowBitsMask # {}
                  THEN mantissa + 1 ELSE mantissa)

uintToFloatRoundDownW(size) ==
    IF LessW(size, Bits(MANTISSA_VALUE))
    THEN Value(size)
    ELSE LET mantissaStartBit == MaxOf(size) - MANTISSA_BITS
             exp == mantissaStartBit + 1
             mantissa == Value(ShrW(size, mantissaStartBit)
                                 \cap Bits(MANTISSA_MASK))
         IN  ShiftLeft(exp, MANTISSA_BITS) + mantissa

floatToUintW_denorm(floatValue) ==
    LET exponent == ShiftRight(floatValue, MANTISSA_BITS)
        mantissa == AndMask(floatValue, MANTISSA_MASK)
    IN  IF exponent = 0
        THEN Bits(mantissa)
        ELSE ShlW(Bits(mantissa), exponent - 1)

floatToUintW(floatValue) ==
    LET exponent == ShiftRight(floatValue, MANTISSA_BITS)
        mantissa == AndMask(floatValue, MANTISSA_MASK)
    IN  IF exponent = 0
        THEN Bits(mantissa)
        ELSE ShlW(Bits(mantissa + MANTISSA_VALUE), exponent - 1)

(* mutant: the start bit itself is masked out (mask built from startBitIndex + 1) *)
findLowestSetBitAfter_strict(bitMask, startBitIndex) ==
    LET bitsAfter == {b \in bitMask : b > startBitIndex}
    IN  IF bitsAfter = {} THEN NO_SPACE ELSE MinOf(bitsAfter)

findLowestSetBitAfter(bitMask, startBitIndex) ==
    LET bitsAfter == {b \in bitMask : b >= startBitIndex}
    IN  IF bitsAfter = {} THEN NO_SPACE ELSE tzcnt_nonzero(bitsAfter)

(* ---- the allocator as a value: the C functions take Allocator* ---- *)
Self == [m_size |-> m_size, m_maxAllocs |-> m_maxAllocs,
         m_freeStorage |-> m_freeStorage, m_usedBinsTop |-> m_usedBinsTop,
         m_usedBins |-> m_usedBins, m_binIndices |-> m_binIndices,
         m_nodes |-> m_nodes, m_freeNodes |-> m_freeNodes,
         m_freeOffset |-> m_freeOffset]

(* calloc'ed node whose four links reset sets to NODE_UNUSED *)
EmptyNode == [dataOffset |-> 0, dataSize |-> 0,
              binListPrev |-> NODE_UNUSED, binListNext |-> NODE_UNUSED,
              neighborPrev |-> NODE_UNUSED, neighborNext |-> NODE_UNUSED,
              used |-> FALSE]

(* mutant: the top bit stays set when the leaf byte becomes zero *)
clearBinBits_keepTop(a, binIndex) ==
    LET topBinIndex == ShiftRight(binIndex, TOP_BINS_INDEX_SHIFT)
        leafBinIndex == AndMask(binIndex, LEAF_BINS_INDEX_MASK)
    IN  IF a.m_binIndices[binIndex] = NODE_UNUSED
        THEN [a EXCEPT !.m_usedBins[topBinIndex] = @ \ {leafBinIndex}]
        ELSE a

(* "Bin empty?" block shared by allocate and removeNodeFromBin: clear the  *)
(* leaf bit when the bin head became NODE_UNUSED, then the top bit when    *)
(* the leaf byte became zero.                                              *)
clearBinBits(a, binIndex) ==
    LET topBinIndex == ShiftRight(binIndex, TOP_BINS_INDEX_SHIFT)
        leafBinIndex == AndMask(binIndex, LEAF_BINS_INDEX_MASK)
    IN  IF a.m_binIndices[binIndex] = NODE_UNUSED
        THEN LET leaf == a.m_usedBins[topBinIndex] \ {leafBinIndex}
             IN  [a EXCEPT !.m_usedBins[topBinIndex] = leaf,
                           !.m_usedBinsTop =
                               IF leaf = {} THEN @ \ {topBinIndex} ELSE @]
        ELSE a

(* "Bin was empty before?" block of insertNodeIntoBin *)
setBinBits(a, binIndex) ==
    LET topBinIndex == ShiftRight(binIndex, TOP_BINS_INDEX_SHIFT)
        leafBinIndex == AndMask(binIndex, LEAF_BINS_INDEX_MASK)
    IN  IF a.m_binIndices[binIndex] = NODE_UNUSED
        THEN [a EXCEPT !.m_usedBins[topBinIndex] = @ \cup {leafBinIndex},
                       !.m_usedBinsTop = @ \cup {topBinIndex}]
        ELSE a

(* mutant: the slot taken for the new node stays on top of the freelist *)
insertNodeIntoBin_nopop(a, size, dataOffset) ==
    LET binIndex == uintToFloatRoundDown(size)
        a1 == setBinBits(a, binIndex)
        topNodeIndex == a1.m_binIndices[binIndex]
        nodeIndex == a1.m_freeNodes[a1.m_freeOffset]
        newNode == [dataOffset |-> dataOffset, dataSize |-> size,
                    binListNext |-> topNodeIndex, binListPrev |-> NODE_UNUSED,
                    neighborPrev |-> NODE_UNUSED, neighborNext |-> NODE_UNUSED,
                    used |-> FALSE]
        a2 == [a1 EXCEPT !.m_nodes[nodeIndex] = newNode]
        a3 == IF topNodeIndex # NODE_UNUSED
              THEN [a2 EXCEPT !.m_nodes[topNodeIndex].binListPrev = nodeIndex]
              ELSE a2
    IN  [a |-> [a3 EXCEPT !.m_binIndices[binIndex] = nodeIndex,
                          !.m_freeStorage = @ + size],
         nodeIndex |-> nodeIndex]

(* mutant: the old head of the bin is not linked back to the new node *)
insertNodeIntoBin_noback(a, size, dataOffset) ==
    LET binIndex == uintToFloatRoundDown(size)
        a1 == setBinBits(a, binIndex)
        topNodeIndex == a1.m_binIndices[binIndex]
        nodeIndex == a1.m_freeNodes[a1.m_freeOffset]
        newNode == [dataOffset |-> dataOffset, dataSize |-> size,
                    binListNext |-> topNodeIndex, binListPrev |-> NODE_UNUSED,
                    neighborPrev |-> NODE_UNUSED, neighborNext |-> NODE_UNUSED,
                    used |-> FALSE]
        a2 == [a1 EXCEPT !.m_freeOffset = @ - 1,
                         !.m_nodes[nodeIndex] = newNode]
    IN  [a |-> [a2 EXCEPT !.m_binIndices[binIndex] = nodeIndex,
                          !.m_freeStorage = @ + size],
         nodeIndex |-> nodeIndex]

(* mutant: the inserted node's size is not added to m_freeStorage *)
insertNodeIntoBin_noadd(a, size, dataOffset) ==
    LET binIndex == uintToFloatRoundDown(size)
        a1 == setBinBits(a, binIndex)
        topNodeIndex == a1.m_binIndices[binIndex]
        nodeIndex == a1.m_freeNodes[a1.m_freeOffset]
        newNode == [dataOffset |-> dataOffset, dataSize |-> size,
                    binListNext |-> topNodeIndex, binListPrev |-> NODE_UNUSED,
                    neighborPrev |-> NODE_UNUSED, neighborNext |-> NODE_UNUSED,
                    used |-> FALSE]
        a2 == [a1 EXCEPT !.m_freeOffset = @ - 1,
                         !.m_nodes[nodeIndex] = newNode]
        a3 == IF topNodeIndex # NODE_UNUSED
              THEN [a2 EXCEPT !.m_nodes[topNodeIndex].binListPrev = nodeIndex]
              ELSE a2
    IN  [a |-> [a3 EXCEPT !.m_binIndices[binIndex] = nodeIndex],
         nodeIndex |-> nodeIndex]

(* returns the new allocator value and the index of the node created *)
insertNodeIntoBin(a, size, dataOffset) ==
    LET binIndex == uintToFloatRoundDown(size)
        a1 == setBinBits(a, binIndex)
        topNodeIndex == a1.m_binIndices[binIndex]
        nodeIndex == a1.m_freeNodes[a1.m_freeOffset]
        newNode == [dataOffset |-> dataOffset, dataSize |-> size,
                    binListNext |-> topNodeIndex, binListPrev |-> NODE_UNUSED,
                    neighborPrev |-> NODE_UNUSED, neighborNext |-> NODE_UNUSED,
                    used |-> FALSE]
        a2 == [a1 EXCEPT !.m_freeOffset = @ - 1,
                         !.m_nodes[nodeIndex] = newNode]
        a3 == IF topNodeIndex # NODE_UNUSED
              THEN [a2 EXCEPT !.m_nodes[topNodeIndex].binListPrev = nodeIndex]
              ELSE a2
    IN  [a |-> [a3 EXCEPT !.m_binIndices[binIndex] = nodeIndex,
                          !.m_freeStorage = @ + size],
         nodeIndex |-> nodeIndex]

(* mutant: the removed node's size is not taken off m_freeStorage *)
removeNodeFromBin_nosub(a, nodeIndex) ==
    LET node == a.m_nodes[nodeIndex]
        a1 == IF node.binListPrev # NODE_UNUSED
              THEN LET b1 == [a EXCEPT !.m_nodes[node.binListPrev].binListNext
                                           = node.binListNext]
                   IN  IF node.binListNext # NODE_UNUSED
                       THEN [b1 EXCEPT !.m_nodes[node.binListNext].binListPrev
                                           = node.binListPrev]
                       ELSE b1
              ELSE LET binIndex == uintToFloatRoundDown(node.dataSize)
                       b1 == [a EXCEPT !.m_binIndices[binIndex]
                                           = node.binListNext]
                       b2 == IF node.binListNext # NODE_UNUSED
                             THEN [b1 EXCEPT
                                     !.m_nodes[node.binListNext].binListPrev
                                           = NODE_UNUSED]
                             ELSE b1
                   IN  clearBinBits(b2, binIndex)
    IN  [a1 EXCEPT !.m_freeOffset = @ + 1,
                   !.m_freeNodes[a1.m_freeOffset + 1] = nodeIndex]

removeNodeFromBin(a, nodeIndex) ==
    LET node == a.m_nodes[nodeIndex]
        a1 == IF node.binListPrev # NODE_UNUSED
              THEN LET b1 == [a EXCEPT !.m_nodes[node.binListPrev].binListNext
                                           = node.binListNext]
                   IN  IF node.binListNext # NODE_UNUSED
                       THEN [b1 EXCEPT !.m_nodes[node.binListNext].binListPrev
                                           = node.binListPrev]
                       ELSE b1
              ELSE LET binIndex == uintToFloatRoundDown(node.dataSize)
                       b1 == [a EXCEPT !.m_binIndices[binIndex]
                                           = node.binListNext]
                       b2 == IF node.binListNext # NODE_UNUSED
                             THEN [b1 EXCEPT
                                     !.m_nodes[node.binListNext].binListPrev
                                           = NODE_UNUSED]
                             ELSE b1
                   IN  clearBinBits(b2, binIndex)
    IN  [a1 EXCEPT !.m_freeOffset = @ + 1,
                   !.m_freeNodes[a1.m_freeOffset + 1] = nodeIndex,
                   !.m_freeStorage = @ - node.dataSize]

(* mutant: m_usedBinsTop is not zeroed *)
resetAllocator_keepTop(a) ==
    LET cleared ==
          [a EXCEPT !.m_freeStorage = 0,
                    !.m_freeOffset = a.m_maxAllocs - 1,
                    !.m_usedBins = [i \in 0..(NUM_TOP_BINS - 1) |-> {}],
                    !.m_binIndices = [i \in 0..(NUM_LEAF_BINS - 1)
                                         |-> NODE_UNUSED],
                    !.m_nodes = [i \in 0..(a.m_maxAllocs - 1) |-> EmptyNode],
                    !.m_freeNodes = [i \in 0..(a.m_maxAllocs - 1)
                                         |-> a.m_maxAllocs - i - 1]]
    IN  insertNodeIntoBin(cleared, a.m_size, 0).a

resetAllocator(a) ==
    LET cleared ==
          [a EXCEPT !.m_freeStorage = 0,
                    !.m_usedBinsTop = {},
                    !.m_freeOffset = a.m_maxAllocs - 1,
                    !.m_usedBins = [i \in 0..(NUM_TOP_BINS - 1) |-> {}],
                    !.m_binIndices = [i \in 0..(NUM_LEAF_BINS - 1)
                                         |-> NODE_UNUSED],
                    !.m_nodes = [i \in 0..(a.m_maxAllocs - 1) |-> EmptyNode],
                    !.m_freeNodes = [i \in 0..(a.m_maxAllocs - 1)
                                         |-> a.m_maxAllocs - i - 1]]
    IN  insertNodeIntoBin(cleared, a.m_size, 0).a

(* temp_allocator: the designated initializer zero-fills the fields it    *)
(* does not name; m_nodes and m_freeNodes are NULL                         *)
initAllocator(size, max_allocs) ==
    resetAllocator([m_size |-> size, m_maxAllocs |-> max_allocs,
                    m_freeStorage |-> 0, m_usedBinsTop |-> {},
                    m_usedBins |-> [i \in 0..(NUM_TOP_BINS - 1) |-> {}],
                    m_binIndices |-> [i \in 0..(NUM_LEAF_BINS - 1) |-> 0],
                    m_nodes |-> <<>>, m_freeNodes |-> <<>>,
                    m_freeOffset |-> 0])

(* mutant: the pool test never refuses *)
outOfAllocations_never(a) == FALSE

(* "Out of allocations?" test at the top of allocate *)
outOfAllocations(a) == a.m_freeOffset = 0

(* mutant: the request is rounded down to its bin *)
findBin_roundDown(a, size) ==
    LET minBinIndex == uintToFloatRoundDown(size)
        minTopBinIndex == ShiftRight(minBinIndex, TOP_BINS_INDEX_SHIFT)
        minLeafBinIndex == AndMask(minBinIndex, LEAF_BINS_INDEX_MASK)
        leafInTop == IF minTopBinIndex \in a.m_usedBinsTop
                     THEN findLowestSetBitAfter(a.m_usedBins[minTopBinIndex],
                                                minLeafBinIndex)
                     ELSE NO_SPACE
    IN  IF leafInTop # NO_SPACE
        THEN ShiftLeft(minTopBinIndex, TOP_BINS_INDEX_SHIFT) + leafInTop
        ELSE LET topBinIndex == findLowestSetBitAfter(a.m_usedBinsTop,
                                                      minTopBinIndex + 1)
             IN  IF topBinIndex = NO_SPACE
                 THEN NO_SPACE
                 ELSE ShiftLeft(topBinIndex, TOP_BINS_INDEX_SHIFT)
                        + tzcnt_nonzero(a.m_usedBins[topBinIndex])

(* mutant: the highest non-empty bin that is large enough is taken *)
findBin_highest(a, size) ==
    LET suitable == {b \in 0..(NUM_LEAF_BINS - 1) :
                        /\ a.m_binIndices[b] # NODE_UNUSED
                        /\ b >= uintToFloatRoundUp(size)}
    IN  IF suitable = {} THEN NO_SPACE ELSE MaxOf(suitable)

(* two-level bitmap search of allocate: the bin to pop from, or NO_SPACE *)
findBin(a, size) ==
    LET minBinIndex == uintToFloatRoundUp(size)
        minTopBinIndex == ShiftRight(minBinIndex, TOP_BINS_INDEX_SHIFT)
        minLeafBinIndex == AndMask(minBinIndex, LEAF_BINS_INDEX_MASK)
        leafInTop == IF minTopBinIndex \in a.m_usedBinsTop
                     THEN findLowestSetBitAfter(a.m_usedBins[minTopBinIndex],
                                                minLeafBinIndex)
                     ELSE NO_SPACE
    IN  IF leafInTop # NO_SPACE
        THEN ShiftLeft(minTopBinIndex, TOP_BINS_INDEX_SHIFT) + leafInTop
        ELSE LET topBinIndex == findLowestSetBitAfter(a.m_usedBinsTop,
                                                      minTopBinIndex + 1)
             IN  IF topBinIndex = NO_SPACE
                 THEN NO_SPACE
                 ELSE ShiftLeft(topBinIndex, TOP_BINS_INDEX_SHIFT)
                        + tzcnt_nonzero(a.m_usedBins[topBinIndex])

(* mutant: the remainder is placed at the start of the split node *)
reminderOffset_same(node, size) == node.dataOffset

(* mutant: the remainder is placed one unit too far *)
reminderOffset_gap(node, size) == node.dataOffset + size + 1

(* offset at which allocate places the remainder of the split node *)
reminderOffset(node, size) == node.dataOffset + size

(* pop the head of bin binIndex, mark it used, split off the remainder *)
(* mutant: the popped node's binListNext is cleared *)
popAndSplit_unlink(a, binIndex, size) ==
    LET nodeIndex == a.m_binIndices[binIndex]
        node == a.m_nodes[nodeIndex]
        nodeTotalSize == node.dataSize
        a1 == [a EXCEPT !.m_nodes[nodeIndex].dataSize = size,
                        !.m_nodes[nodeIndex].used = TRUE,
                        !.m_nodes[nodeIndex].binListNext = NODE_UNUSED,
                        !.m_binIndices[binIndex] = node.binListNext,
                        !.m_freeStorage = @ - nodeTotalSize]
        a2 == IF node.binListNext # NODE_UNUSED
              THEN [a1 EXCEPT !.m_nodes[node.binListNext].binListPrev
                                  = NODE_UNUSED]
              ELSE a1
        a3 == clearBinBits(a2, binIndex)
        reminderSize == nodeTotalSize - size
        a4 == IF reminderSize > 0
              THEN LET ins == insertNodeIntoBin(a3, reminderSize,
                                                reminderOffset(node, size))
                       newNodeIndex == ins.nodeIndex
                       b1 == IF node.neighborNext # NODE_UNUSED
                             THEN [ins.a EXCEPT
                                     !.m_nodes[node.neighborNext].neighborPrev
                                         = newNodeIndex]
                             ELSE ins.a
                   IN  [b1 EXCEPT
                          !.m_nodes[newNodeIndex].neighborPrev = nodeIndex,
                          !.m_nodes[newNodeIndex].neighborNext
                              = node.neighborNext,
                          !.m_nodes[nodeIndex].neighborNext = newNodeIndex]
              ELSE a3
    IN  [a |-> a4,
         res |-> [offset |-> node.dataOffset, metadata |-> nodeIndex]]

popAndSplit(a, binIndex, size) ==
    LET nodeIndex == a.m_binIndices[binIndex]
        node == a.m_nodes[nodeIndex]
        nodeTotalSize == node.dataSize
        a1 == [a EXCEPT !.m_nodes[nodeIndex].dataSize = size,
                        !.m_nodes[nodeIndex].used = TRUE,
                        !.m_binIndices[binIndex] = node.binListNext,
                        !.m_freeStorage = @ - nodeTotalSize]
        a2 == IF node.binListNext # NODE_UNUSED
              THEN [a1 EXCEPT !.m_nodes[node.binListNext].binListPrev
                                  = NODE_UNUSED]
              ELSE a1
        a3 == clearBinBits(a2, binIndex)
        reminderSize == nodeTotalSize - size
        a4 == IF reminderSize > 0
              THEN LET ins == insertNodeIntoBin(a3, reminderSize,
                                                reminderOffset(node, size))
                       newNodeIndex == ins.nodeIndex
                       b1 == IF node.neighborNext # NODE_UNUSED
                             THEN [ins.a EXCEPT
                                     !.m_nodes[node.neighborNext].neighborPrev
                                         = newNodeIndex]
                             ELSE ins.a
                   IN  [b1 EXCEPT
                          !.m_nodes[newNodeIndex].neighborPrev = nodeIndex,
                          !.m_nodes[newNodeIndex].neighborNext
                              = node.neighborNext,
                          !.m_nodes[nodeIndex].neighborNext = newNodeIndex]
              ELSE a3
    IN  [a |-> a4,
         res |-> [offset |-> node.dataOffset, metadata |-> nodeIndex]]

(* mutant: a pool slot is taken before the bin search and not given back *)
(* when the search fails                                                 *)
allocate_leak(a, size) ==
    IF outOfAllocations(a)
    THEN [a |-> a, res |-> EmptyAllocation]
    ELSE LET binIndex == findBin(a, size)
         IN  IF binIndex = NO_SPACE
             THEN [a |-> [a EXCEPT !.m_freeOffset = @ - 1],
                   res |-> EmptyAllocation]
             ELSE popAndSplit(a, binIndex, size)

(* returns the new allocator value and the Allocation handed to the caller *)
allocate(a, size) ==
    IF outOfAllocations(a)
    THEN [a |-> a, res |-> EmptyAllocation]
    ELSE LET binIndex == findBin(a, size)
         IN  IF binIndex = NO_SPACE
             THEN [a |-> a, res |-> EmptyAllocation]
             ELSE popAndSplit(a, binIndex, size)

(* mutant: the previous neighbour is absorbed whether it is used or not *)
mergePrev_any(a, nodeIndex) ==
    LET node == a.m_nodes[nodeIndex]
    IN  IF node.neighborPrev # NODE_UNUSED
        THEN LET prevNode == a.m_nodes[node.neighborPrev]
                 a1 == removeNodeFromBin(a, node.neighborPrev)
             IN  [a |-> [a1 EXCEPT !.m_nodes[nodeIndex].neighborPrev
                                       = prevNode.neighborPrev],
                  offset |-> prevNode.dataOffset,
                  size |-> node.dataSize + prevNode.dataSize]
        ELSE [a |-> a, offset |-> node.dataOffset, size |-> node.dataSize]

(* mutant: a free previous neighbour is left alone *)
mergePrev_skip(a, nodeIndex) ==
    [a |-> a, offset |-> a.m_nodes[nodeIndex].dataOffset,
     size |-> a.m_nodes[nodeIndex].dataSize]

(* freeAllocation, first half: absorb a free previous neighbour *)
mergePrev(a, nodeIndex) ==
    LET node == a.m_nodes[nodeIndex]
    IN  IF node.neighborPrev # NODE_UNUSED
           /\ a.m_nodes[node.neighborPrev].used = FALSE
        THEN LET prevNode == a.m_nodes[node.neighborPrev]
                 a1 == removeNodeFromBin(a, node.neighborPrev)
             IN  [a |-> [a1 EXCEPT !.m_nodes[nodeIndex].neighborPrev
                                       = prevNode.neighborPrev],
                  offset |-> prevNode.dataOffset,
                  size |-> node.dataSize + prevNode.dataSize]
        ELSE [a |-> a, offset |-> node.dataOffset, size |-> node.dataSize]

(* mutant: the absorbed next neighbour stays linked as the node's successor *)
mergeNext_nolink(a, nodeIndex, size) ==
    LET node == a.m_nodes[nodeIndex]
    IN  IF node.neighborNext # NODE_UNUSED
           /\ a.m_nodes[node.neighborNext].used = FALSE
        THEN LET nextNode == a.m_nodes[node.neighborNext]
                 a1 == removeNodeFromBin(a, node.neighborNext)
             IN  [a |-> a1, size |-> size + nextNode.dataSize]
        ELSE [a |-> a, size |-> size]

(* mutant: a free next neighbour is left alone *)
mergeNext_skip(a, nodeIndex, size) == [a |-> a, size |-> size]

(* freeAllocation, second half: absorb a free next neighbour *)
mergeNext(a, nodeIndex, size) ==
    LET node == a.m_nodes[nodeIndex]
    IN  IF node.neighborNext # NODE_UNUSED
           /\ a.m_nodes[node.neighborNext].used = FALSE
        THEN LET nextNode == a.m_nodes[node.neighborNext]
                 a1 == removeNodeFromBin(a, node.neighborNext)
             IN  [a |-> [a1 EXCEPT !.m_nodes[nodeIndex].neighborNext
                                       = nextNode.neighborNext],
                  size |-> size + nextNode.dataSize]
        ELSE [a |-> a, size |-> size]

freeAllocation(a, allocation) ==
    LET nodeIndex == allocation.metadata
        p == mergePrev(a, nodeIndex)
        n == mergeNext(p.a, nodeIndex, p.size)
        neighborNext == n.a.m_nodes[nodeIndex].neighborNext
        neighborPrev == n.a.m_nodes[nodeIndex].neighborPrev
        pushed == [n.a EXCEPT !.m_freeOffset = @ + 1,
                              !.m_freeNodes[n.a.m_freeOffset + 1] = nodeIndex]
        ins == insertNodeIntoBin(pushed, n.size, p.offset)
        combinedNodeIndex == ins.nodeIndex
        c1 == IF neighborNext # NODE_UNUSED
              THEN [ins.a EXCEPT
                      !.m_nodes[combinedNodeIndex].neighborNext = neighborNext,
                      !.m_nodes[neighborNext].neighborPrev = combinedNodeIndex]
              ELSE ins.a
    IN  IF neighborPrev # NODE_UNUSED
        THEN [c1 EXCEPT
                !.m_nodes[combinedNodeIndex].neighborPrev = neighborPrev,
                !.m_nodes[neighborPrev].neighborNext = combinedNodeIndex]
        ELSE c1

(* mutant: the top bin index is dropped from the bin index that is decoded *)
storageReport_leafOnly(a) ==
    IF a.m_freeOffset > 0
    THEN [totalFreeSpace |-> a.m_freeStorage,
          largestFreeRegion |->
            IF a.m_usedBinsTop # {}
            THEN LET topBinIndex == highestBitOfMask(a.m_usedBinsTop)
                     leafBinIndex == highestBitOfMask(a.m_usedBins[topBinIndex])
                 IN  floatToUint(leafBinIndex)
            ELSE 0]
    ELSE [totalFreeSpace |-> 0, largestFreeRegion |-> 0]

(* mutant: free space is reported also when m_freeOffset is 0 *)
storageReport_always(a) ==
    [totalFreeSpace |-> a.m_freeStorage,
     largestFreeRegion |->
       IF a.m_usedBinsTop # {}
       THEN LET topBinIndex == highestBitOfMask(a.m_usedBinsTop)
                leafBinIndex == highestBitOfMask(a.m_usedBins[topBinIndex])
            IN  floatToUint(ShiftLeft(topBinIndex, TOP_BINS_INDEX_SHIFT)
                              + leafBinIndex)
       ELSE 0]

storageReport(a) ==
    IF a.m_freeOffset > 0
    THEN [totalFreeSpace |-> a.m_freeStorage,
          largestFreeRegion |->
            IF a.m_usedBinsTop # {}
            THEN LET topBinIndex == highestBitOfMask(a.m_usedBinsTop)
                     leafBinIndex == highestBitOfMask(a.m_usedBins[topBinIndex])
                 IN  floatToUint(ShiftLeft(topBinIndex, TOP_BINS_INDEX_SHIFT)
                                   + leafBinIndex)
            ELSE 0]
    ELSE [totalFreeSpace |-> 0, largestFreeRegion |-> 0]

(* ---- derived views of the state ---- *)
Slots(a) == 0..(a.m_maxAllocs - 1)
(* pool slots currently on the freelist stack free_nodes[0..free_offset] *)
StackSlots(a) == {a.m_freeNodes[i] : i \in 0..a.m_freeOffset}
LiveNodes(a) == Slots(a) \ StackSlots(a)
FreeLive(a) == {n \in LiveNodes(a) : ~a.m_nodes[n].used}
UsedLive(a) == {n \in LiveNodes(a) : a.m_nodes[n].used}
Bins == 0..(NUM_LEAF_BINS - 1)
NonEmptyBins(a) == {b \in Bins : a.m_binIndices[b] # NODE_UNUSED}

RECURSIVE SumSizes(_, _)
SumSizes(a, S) ==
    IF S = {} THEN 0
    ELSE LET n == CHOOSE x \in S : TRUE
         IN  a.m_nodes[n].dataSize + SumSizes(a, S \ {n})

ChainHead(a) ==
    CHOOSE n \in LiveNodes(a) : a.m_nodes[n].neighborPrev = NODE_UNUSED

RECURSIVE ChainFrom(_, _, _)
ChainFrom(a, n, fuel) ==
    IF n = NODE_UNUSED \/ fuel = 0
    THEN <<>>
    ELSE <<n>> \o ChainFrom(a, a.m_nodes[n].neighborNext, fuel - 1)

(* the neighbor chain as the sequence of node indices, lowest offset first *)
Chain(a) == ChainFrom(a, ChainHead(a), a.m_maxAllocs)

(* the free list of a bin: the nodes met from the bin's head along         *)
(* binListNext                                                             *)
RECURSIVE BinFrom(_, _, _)
BinFrom(a, n, fuel) ==
    IF n = NODE_UNUSED \/ fuel = 0
    THEN <<>>
    ELSE <<n>> \o BinFrom(a, a.m_nodes[n].binListNext, fuel - 1)

BinList(a, binIndex) == BinFrom(a, a.m_binIndices[binIndex], a.m_maxAllocs + 1)

(* what a caller can observe of the layout *)
Layout(a) ==
    [chain |-> [i \in DOMAIN Chain(a) |->
                   LET nd == a.m_nodes[Chain(a)[i]]
                   IN  <<nd.dataOffset, nd.dataSize, nd.used>>],
     freeStorage |-> a.m_freeStorage,
     usedBinsTop |-> a.m_usedBinsTop,
     usedBins |-> a.m_usedBins,
     freeOffset |-> a.m_freeOffset]

NoSnap == <<>>
NoEnc == [op |-> "none"]
NoReport == [totalFreeSpace |-> NO_SPACE, largestFreeRegion |-> NO_SPACE]
ReqSizes == {0, 1, MaxSize - 2, MaxSize - 1, MaxSize}
InitSizes == {MaxSize - 1, MaxSize}
InitMaxAllocs == 2..MaxAllocs

Op(name, size, merged, flag) ==
    [op |-> name, size |-> size, merged |-> merged, flag |-> flag]

SetAllocator(a) ==
    /\ m_size' = a.m_size
    /\ m_maxAllocs' = a.m_maxAllocs
    /\ m_freeStorage' = a.m_freeStorage
    /\ m_usedBinsTop' = a.m_usedBinsTop
    /\ m_usedBins' = a.m_usedBins
    /\ m_binIndices' = a.m_binIndices
    /\ m_nodes' = a.m_nodes
    /\ m_freeNodes' = a.m_freeNodes
    /\ m_freeOffset' = a.m_freeOffset

(* ---- the state after initAllocator(size, max_allocs) ---- *)
InitState(size, max_allocs) ==
        LET a == initAllocator(size, max_allocs)
        IN  /\ m_size = a.m_size
            /\ m_maxAllocs = a.m_maxAllocs
            /\ m_freeStorage = a.m_freeStorage
            /\ m_usedBinsTop = a.m_usedBinsTop
            /\ m_usedBins = a.m_usedBins
            /\ m_binIndices = a.m_binIndices
            /\ m_nodes = a.m_nodes
            /\ m_freeNodes = a.m_freeNodes
            /\ m_freeOffset = a.m_freeOffset
            /\ allocs = {}
            /\ res = EmptyAllocation
            /\ report = NoReport
            /\ lastOp = Op("init", size, 0, FALSE)
            /\ nFrees = 0
            /\ snap = NoSnap

Init ==
    \E size \in InitSizes, max_allocs \in InitMaxAllocs :
        InitState(size, max_allocs) /\ enc = NoEnc

(* ---- operations ---- *)
Allocate(size) ==
    LET r == allocate(Self, size)
        ok == r.res.offset # NO_SPACE
    IN  /\ SetAllocator(r.a)
        /\ res' = r.res
        /\ report' = NoReport
        /\ allocs' = IF ok
                     THEN allocs \cup {[offset |-> r.res.offset,
                                        metadata |-> r.res.metadata,
                                        size |-> size]}
                     ELSE allocs
        /\ lastOp' = Op("allocate", size, 0,
                        lastOp.op = "free" /\ lastOp.merged > 0)
        /\ snap' = IF ok THEN Layout(Self) ELSE NoSnap
        /\ UNCHANGED <<nFrees, enc>>

Free(x) ==
    LET nd == m_nodes[x.metadata]
        merged == (IF nd.neighborPrev # NODE_UNUSED
                      /\ ~m_nodes[nd.neighborPrev].used THEN 1 ELSE 0)
                  + (IF nd.neighborNext # NODE_UNUSED
                        /\ ~m_nodes[nd.neighborNext].used THEN 1 ELSE 0)
        undo == /\ lastOp.op = "allocate"
                /\ res.offset # NO_SPACE
                /\ res.metadata = x.metadata
    IN  /\ x \in allocs
        /\ nFrees < MaxFrees
        /\ SetAllocator(freeAllocation(Self, [offset |-> x.offset,
                                              metadata |-> x.metadata]))
        /\ allocs' = allocs \ {x}
        /\ res' = EmptyAllocation
        /\ report' = NoReport
        /\ lastOp' = Op("free", x.size, merged, undo)
        /\ snap' = IF undo THEN snap ELSE NoSnap
        /\ nFrees' = nFrees + 1
        /\ UNCHANGED enc

Reset ==
    /\ SetAllocator(resetAllocator(Self))
    /\ allocs' = {}
    /\ res' = EmptyAllocation
    /\ report' = NoReport
    /\ lastOp' = Op("reset", m_size, nFrees, allocs # {})
    /\ nFrees' = 0
    /\ snap' = NoSnap
    /\ UNCHANGED enc

Report ==
    /\ report' = storageReport(Self)
    /\ res' = EmptyAllocation
    /\ lastOp' = Op("report", 0, 0, FALSE)
    /\ snap' = NoSnap
    /\ UNCHANGED <<allocVars, allocs, nFrees, enc>>

Next ==
    \/ \E size \in ReqSizes : Allocate(size)
    \/ \E x \in allocs : Free(x)
    \/ Reset
    \/ Report

Spec == Init /\ [][Next]_vars

(* ---- a caller with a pool one slot larger, allocating and freeing ---- *)
BigAllocs == MaxAllocs + 1
BigSizes == {0, 1, MaxSize - 2}

InitBig == InitState(MaxSize, BigAllocs) /\ enc = NoEnc

NextBig ==
    \/ \E size \in BigSizes : Allocate(size)
    \/ \E x \in allocs : Free(x)

SpecBig == InitBig /\ [][NextBig]_vars

(* ---- the encoding functions called on their own ---- *)
(* float -> uint -> float, as in the loop of testFloatToUint *)
Decode(i) ==
    LET v == floatToUintW(i)
    IN  /\ enc = [op |-> "code", i |-> i]
        /\ enc' = [op |-> "decode", i |-> i, v |-> v,
                   roundUp |-> uintToFloatRoundUpW(v),
                   roundDown |-> uintToFloatRoundDownW(v)]
        /\ UNCHANGED <<allocVars, allocs, res, report, lastOp, nFrees, snap>>

(* uint -> float -> uint *)
Encode(size) ==
    LET roundUp == uintToFloatRoundUpW(size)
        roundDown == uintToFloatRoundDownW(size)
    IN  /\ enc = [op |-> "size", size |-> size]
        /\ enc' = [op |-> "encode", size |-> size,
                   roundUp |-> roundUp, roundDown |-> roundDown,
                   upBack |-> floatToUintW(roundUp),
                   downBack |-> floatToUintW(roundDown)]
        /\ UNCHANGED <<allocVars, allocs, res, report, lastOp, nFrees, snap>>

(* the sizes tried: 0, and for every highest bit the TailBits bits under   *)
(* it in every combination, with the rest of the word all 0, all 1, or     *)
(* just bit 0 (this includes 0xffffffff and every size of a bin)           *)
TailBits == 4
EncSizes ==
    {{}} \cup
    UNION {UNION {{ {h} \cup t \cup low :
                      low \in {{}, {0} \cap (0..(h - 1)),
                               0..(h - TailBits - 1)} } :
                   t \in SUBSET ({h - k : k \in 1..TailBits} \cap BitPositions)} :
           h \in BitPositions}
Codes == 0..(NUM_LEAF_BINS - 1)

NextEnc ==
    \/ \E i \in Codes : Decode(i)
    \/ \E size \in EncSizes : Encode(size)

(* one allocator, left alone, and the input of one call *)
InitEnc ==
    /\ InitState(MaxSize, MaxAllocs)
    /\ enc \in {[op |-> "code", i |-> i] : i \in Codes}
               \cup {[op |-> "size", size |-> size] : size \in EncSizes}

SpecEnc == InitEnc /\ [][NextEnc]_vars

(* ======================================================================= *)
(* Properties                                                              *)
(* ======================================================================= *)
Succeeded(r) == r.offset # NO_SPACE /\ r.metadata # NO_SPACE
Positive == {x \in allocs : x.size > 0}
SuitableBins(a, size) ==
    {b \in NonEmptyBins(a) : b >= uintToFloatRoundUp(size)}
Exact(size) == uintToFloatRoundUp(size) = uintToFloatRoundDown(size)
MaxFreeSize(a) == MaxOf({a.m_nodes[n].dataSize : n \in FreeLive(a)})

RECURSIVE SumAllocSizes(_)
SumAllocSizes(S) ==
    IF S = {} THEN 0
    ELSE LET x == CHOOSE y \in S : TRUE
         IN  x.size + SumAllocSizes(S \ {x})

(* C1: every outstanding allocation of size S > 0 lies inside [0, size)    *)
(* and the ranges of two distinct outstanding allocations are disjoint.    *)
C1_RangesDisjoint ==
    /\ \A x \in Positive : x.offset >= 0 /\ x.offset + x.size <= m_size
    /\ \A x, y \in Positive :
          x # y => \/ x.offset + x.size <= y.offset
                   \/ y.offset + y.size <= x.offset

(* two positive allocations outstanding, the last one made after a free *)
C1_Witness ==
    /\ Cardinality(Positive) >= 2
    /\ nFrees > 0
    /\ lastOp.op = "allocate"
    /\ Succeeded(res)

(* C2: a failing allocate returns offset = metadata = NO_SPACE and leaves  *)
(* every field of the allocator as it was before the call.                 *)
C2_FailureKeepsState ==
    [][(lastOp'.op = "allocate" /\ ~Succeeded(res'))
          => (res' = EmptyAllocation /\ UNCHANGED allocVars)]_vars

(* an allocate has failed for lack of a suitable bin while others are out *)
C2_Witness ==
    /\ lastOp.op = "allocate"
    /\ res = EmptyAllocation
    /\ ~outOfAllocations(Self)
    /\ allocs # {}

(* C3 as stated: with a slot left on the freelist stack and a non-empty    *)
(* bin of index >= round_up(S), allocate(S) succeeds.                      *)
C3_Original ==
    [][(/\ lastOp'.op = "allocate"
        /\ StackSlots(Self) # {}
        /\ SuitableBins(Self, lastOp'.size) # {})
          => Succeeded(res')]_vars

(* C4: when the pool-exhaustion check passes, allocate(S) returns NO_SPACE *)
(* exactly when no bin of index >= round_up(S) is non-empty.               *)
C4_FailsIffNoBin ==
    [][(lastOp'.op = "allocate" /\ ~outOfAllocations(Self))
          => (~Succeeded(res') <=> SuitableBins(Self, lastOp'.size) = {})]_vars

(* an allocate of more than one unit succeeded right after a free that     *)
(* merged the freed region with a neighbour                                *)
C4_Witness ==
    /\ lastOp.op = "allocate"
    /\ lastOp.flag
    /\ lastOp.size > 1
    /\ Succeeded(res)

(* C5: when every allocation has been freed there is exactly one live      *)
(* node; it is free, starts at 0, spans size, and free_storage = size.     *)
C5_AllFreedOneNode ==
    allocs = {} =>
        /\ Cardinality(LiveNodes(Self)) = 1
        /\ \A n \in LiveNodes(Self) :
              /\ ~m_nodes[n].used
              /\ m_nodes[n].dataOffset = 0
              /\ m_nodes[n].dataSize = m_size
        /\ m_freeStorage = m_size

(* the last allocation was freed and absorbed both neighbours *)
C5_Witness ==
    /\ allocs = {}
    /\ lastOp.op = "free"
    /\ lastOp.merged = 2

(* C6 as stated: with nothing outstanding, allocate(size) returns offset 0 *)
C6_Original ==
    [][(allocs = {} /\ lastOp'.op = "allocate" /\ lastOp'.size = m_size)
          => (Succeeded(res') /\ res'.offset = 0)]_vars

(* C6 amended: with nothing outstanding, a total size that is exactly a    *)
(* bin size (round_up(size) = round_down(size)) and the pool-exhaustion    *)
(* check passing, allocate(size) succeeds and returns offset 0.            *)
C6_Amended ==
    [][(/\ allocs = {}
        /\ lastOp'.op = "allocate"
        /\ lastOp'.size = m_size
        /\ Exact(m_size)
        /\ ~outOfAllocations(Self))
          => (Succeeded(res') /\ res'.offset = 0)]_vars

(* the whole space was allocated again after at least two frees *)
C6_Witness ==
    /\ lastOp.op = "allocate"
    /\ lastOp.size = m_size
    /\ nFrees >= 2
    /\ Succeeded(res)
    /\ allocs = {[offset |-> 0, metadata |-> res.metadata, size |-> m_size]}

(* C7: a successful allocate immediately followed by the free of its       *)
(* result restores the neighbor-chain sequence of (offset, size, used),    *)
(* free_storage, both bitmap levels and free_offset.                       *)
C7_AllocFreeRestores ==
    (lastOp.op = "free" /\ lastOp.flag) => Layout(Self) = snap

(* an allocation that split a free node was undone while another           *)
(* allocation was outstanding                                              *)
C7_Witness ==
    /\ lastOp.op = "free"
    /\ lastOp.flag
    /\ lastOp.merged >= 1
    /\ allocs # {}

C9_Original ==
    lastOp.op = "report" => report.totalFreeSpace = m_freeStorage

(* C9 amended: total_free_space is the sum of data_size over the free      *)
(* nodes (= free_storage) when free_offset > 0, and 0 when free_offset = 0 *)
C9_Amended ==
    lastOp.op = "report" =>
        /\ m_freeOffset > 0 =>
              /\ report.totalFreeSpace = SumSizes(Self, FreeLive(Self))
              /\ report.totalFreeSpace = m_freeStorage
        /\ m_freeOffset = 0 => report.totalFreeSpace = 0

(* a report was taken with free space left and no spare pool slot, and the *)
(* mirror case is covered by any report with free_offset > 0               *)
C9_Witness ==
    /\ lastOp.op = "report"
    /\ m_freeOffset = 0
    /\ m_freeStorage > 0
    /\ allocs # {}

(* C10 as stated: largest_free_region is 0 when no bin is non-empty, else  *)
(* decode(b) of the highest non-empty bin b, and the largest free region L *)
(* has decode(b) <= L < decode(b+1).                                       *)
C10_Original ==
    lastOp.op = "report" =>
        IF NonEmptyBins(Self) = {}
        THEN report.largestFreeRegion = 0
        ELSE LET b == MaxOf(NonEmptyBins(Self))
                 L == MaxFreeSize(Self)
             IN  /\ report.largestFreeRegion = floatToUint(b)
                 /\ floatToUint(b) <= L
                 /\ L < floatToUint(b + 1)

(* C10 amended: the same when free_offset > 0; when free_offset = 0 the    *)
(* report gives 0 whatever the bins hold.  The bounds on L hold always.    *)
C10_Amended ==
    /\ NonEmptyBins(Self) # {} =>
          LET b == MaxOf(NonEmptyBins(Self))
              L == MaxFreeSize(Self)
          IN  floatToUint(b) <= L /\ L < floatToUint(b + 1)
    /\ lastOp.op = "report" =>
          IF m_freeOffset > 0 /\ NonEmptyBins(Self) # {}
          THEN report.largestFreeRegion
                  = floatToUint(MaxOf(NonEmptyBins(Self)))
          ELSE report.largestFreeRegion = 0

(* a report was taken with a spare pool slot, an allocation outstanding    *)
(* and a free region larger than the nominal size reported for its bin     *)
C10_Witness ==
    /\ lastOp.op = "report"
    /\ m_freeOffset > 0
    /\ allocs # {}
    /\ report.largestFreeRegion > MANTISSA_VALUE
    /\ report.largestFreeRegion < MaxFreeSize(Self)

(* C11: reset leaves exactly the state init(size, max_allocs) leaves: one  *)
(* free node spanning [0, size), free_storage = size, only bin             *)
(* round_down(size) marked in both bitmap levels, every other pool slot on *)
(* the freelist in its initial order.                                      *)
C11_ResetIsInit ==
    lastOp.op = "reset" =>
        LET b == uintToFloatRoundDown(m_size)
            top == ShiftRight(b, TOP_BINS_INDEX_SHIFT)
            leaf == AndMask(b, LEAF_BINS_INDEX_MASK)
        IN  /\ Self = initAllocator(m_size, m_maxAllocs)
            /\ Cardinality(LiveNodes(Self)) = 1
            /\ \A n \in LiveNodes(Self) :
                  /\ m_nodes[n] = [EmptyNode EXCEPT !.dataSize = m_size]
                  /\ m_binIndices[b] = n
            /\ m_freeStorage = m_size
            /\ NonEmptyBins(Self) = {b}
            /\ m_usedBinsTop = {top}
            /\ \A t \in 0..(NUM_TOP_BINS - 1) :
                  m_usedBins[t] = IF t = top THEN {leaf} ELSE {}
            /\ m_freeOffset = m_maxAllocs - 2
            /\ \A i \in 0..m_freeOffset : m_freeNodes[i] = m_maxAllocs - 1 - i

(* reset was applied with allocations outstanding and after frees *)
C11_Witness ==
    /\ lastOp.op = "reset"
    /\ lastOp.flag
    /\ lastOp.merged > 0

(* C12: for every code v in [0,240), encoding the decoded size gives v     *)
(* back under both roundings: round_up(decode(v)) = v and                  *)
(* round_down(decode(v)) = v.                                              *)
C12_RoundTrip ==
    (enc.op = "decode" /\ enc.i < 240) =>
        enc.roundUp = enc.i /\ enc.roundDown = enc.i
C12_Witness ==
    /\ enc.op = "decode" /\ enc.i = 239
    /\ enc.v = {28, 29, 30, 31}
    /\ enc.roundUp = 239

(* C13: for every 32-bit size S, decode(round_up(S)) >= S and              *)
(* decode(round_down(S)) <= S, decode computed in 32-bit unsigned          *)
(* arithmetic.                                                             *)
C13_Original ==
    enc.op = "encode" =>
        /\ LeqW(enc.size, enc.upBack)
        /\ LeqW(enc.downBack, enc.size)
(* C13 as the code has it: decode(round_down(S)) <= S for every S;         *)
(* decode(round_up(S)) >= S while round_up(S) < 240, that is for           *)
(* S <= 0xF0000000 = decode(239); every larger S rounds up to 240, whose   *)
(* decoded value 2^32 wraps to 0.                                          *)
C13_Amended ==
    enc.op = "encode" =>
        /\ LeqW(enc.downBack, enc.size)
        /\ enc.roundUp < 240 => LeqW(enc.size, enc.upBack)
        /\ LessW(floatToUintW(239), enc.size) <=> enc.roundUp = 240
        /\ enc.roundUp = 240 => enc.upBack = {}
        /\ enc.roundUp <= 240
C13_Witness ==
    /\ enc.op = "encode"
    /\ enc.size = BitPositions
    /\ enc.roundUp = 240 /\ enc.upBack = {}
    /\ enc.roundDown = 239 /\ enc.downBack = {28, 29, 30, 31}

(* C14: in every reachable state free_storage = size if and only if no     *)
(* allocation is outstanding (no live node is used).                       *)
C14_Original ==
    (m_freeStorage = m_size) <=> (UsedLive(Self) = {})
(* C14 as the code has it: free_storage = size minus the sizes of the      *)
(* used live nodes, so free_storage = size if and only if every            *)
(* outstanding allocation has size 0.                                      *)
C14_Amended ==
    /\ m_freeStorage = m_size - SumSizes(Self, UsedLive(Self))
    /\ (m_freeStorage = m_size)
         <=> (\A n \in UsedLive(Self) : m_nodes[n].dataSize = 0)
    /\ UsedLive(Self) = {n \in Slots(Self) : \E x \in allocs : x.metadata = n}
C14_Witness ==
    /\ lastOp.op = "allocate" /\ lastOp.size = 0
    /\ res.offset # NO_SPACE
    /\ UsedLive(Self) # {}
    /\ m_freeStorage = m_size

(* C15: after every public operation the neighbor chain is a consistent    *)
(* doubly-linked list (m = n.neighborNext iff n = m.neighborPrev) that     *)
(* contains every live node exactly once and tiles [0, size): the first    *)
(* node is at offset 0, each successor starts where its predecessor ends,  *)
(* the last node ends at size, and the live sizes sum to size.             *)
C15_ChainTiles ==
    LET live == LiveNodes(Self)
        heads == {n \in live : m_nodes[n].neighborPrev = NODE_UNUSED}
    IN  /\ Cardinality(heads) = 1
        /\ \A n \in live :
              /\ m_nodes[n].neighborNext # NODE_UNUSED =>
                    /\ m_nodes[n].neighborNext \in live
                    /\ m_nodes[m_nodes[n].neighborNext].neighborPrev = n
              /\ m_nodes[n].neighborPrev # NODE_UNUSED =>
                    /\ m_nodes[n].neighborPrev \in live
                    /\ m_nodes[m_nodes[n].neighborPrev].neighborNext = n
        /\ LET c == Chain(Self)
           IN  /\ Len(c) = Cardinality(live)
               /\ {c[i] : i \in DOMAIN c} = live
               /\ m_nodes[c[1]].dataOffset = 0
               /\ \A i \in 1..(Len(c) - 1) :
                     m_nodes[c[i + 1]].dataOffset
                        = m_nodes[c[i]].dataOffset + m_nodes[c[i]].dataSize
               /\ m_nodes[c[Len(c)]].neighborNext = NODE_UNUSED
               /\ m_nodes[c[Len(c)]].dataOffset + m_nodes[c[Len(c)]].dataSize
                     = m_size
        /\ SumSizes(Self, live) = m_size
(* a used node followed by the free node a coalescing free has built *)
C15_Witness ==
    /\ lastOp.op = "free" /\ lastOp.merged > 0
    /\ Len(Chain(Self)) = 2
    /\ m_nodes[Chain(Self)[1]].used
    /\ m_nodes[Chain(Self)[1]].dataSize > 0

(* C16: after every public operation data_offset strictly increases along  *)
(* the neighbor chain, and no two live nodes have the same data_offset.    *)
C16_Original ==
    LET c == Chain(Self)
    IN  /\ \A i \in 1..(Len(c) - 1) :
              m_nodes[c[i]].dataOffset < m_nodes[c[i + 1]].dataOffset
        /\ \A n, m \in LiveNodes(Self) :
              n # m => m_nodes[n].dataOffset # m_nodes[m].dataOffset
(* C16 as the code has it: data_offset never decreases along the chain; a  *)
(* node and its successor share a data_offset exactly when the node has    *)
(* data_size 0 (a zero-size allocation, or the free node its free leaves), *)
(* and of two live nodes at one data_offset at least one has data_size 0.  *)
C16_Amended ==
    LET c == Chain(Self)
    IN  /\ \A i \in 1..(Len(c) - 1) :
              /\ m_nodes[c[i]].dataOffset <= m_nodes[c[i + 1]].dataOffset
              /\ (m_nodes[c[i]].dataOffset = m_nodes[c[i + 1]].dataOffset)
                    <=> (m_nodes[c[i]].dataSize = 0)
        /\ \A n, m \in LiveNodes(Self) :
              (n # m /\ m_nodes[n].dataOffset = m_nodes[m].dataOffset) =>
                  \E k \in {n, m} : m_nodes[k].dataSize = 0
C16_Witness ==
    /\ lastOp.op = "allocate" /\ lastOp.size = 0 /\ res.offset # NO_SPACE
    /\ Len(Chain(Self)) >= 2
    /\ m_nodes[Chain(Self)[1]].dataOffset = m_nodes[Chain(Self)[2]].dataOffset
    /\ m_nodes[Chain(Self)[1]].used

(* C17: after every public operation no two nodes adjacent in the neighbor *)
(* chain are both free.                                                    *)
C17_NoAdjacentFree ==
    \A n \in LiveNodes(Self) :
        m_nodes[n].neighborNext # NODE_UNUSED =>
            (m_nodes[n].used \/ m_nodes[m_nodes[n].neighborNext].used)
(* an allocation carved out of the node a coalescing free has built, its   *)
(* remainder left free behind two used nodes                               *)
C17_Witness ==
    /\ lastOp.op = "allocate" /\ lastOp.flag /\ res.offset # NO_SPACE
    /\ Len(Chain(Self)) = 3
    /\ m_nodes[Chain(Self)[2]].used
    /\ ~m_nodes[Chain(Self)[3]].used

(* C18: after every public operation each live free node is reachable from *)
(* exactly one bin head, that of bin round_down(data_size), through an     *)
(* acyclic doubly-linked list whose prev/next links mirror each other, and *)
(* no used node is reachable from any bin head.                            *)
C18_BinLists ==
    /\ \A b \in NonEmptyBins(Self) :
          LET l == BinList(Self, b)
          IN  /\ Len(l) <= m_maxAllocs
              /\ \A i, j \in DOMAIN l : i # j => l[i] # l[j]
              /\ \A i \in DOMAIN l :
                    /\ l[i] \in FreeLive(Self)
                    /\ uintToFloatRoundDown(m_nodes[l[i]].dataSize) = b
                    /\ m_nodes[l[i]].binListPrev
                          = IF i = 1 THEN NODE_UNUSED ELSE l[i - 1]
    /\ \A n \in FreeLive(Self) :
          LET home == uintToFloatRoundDown(m_nodes[n].dataSize)
          IN  \A b \in NonEmptyBins(Self) \cup {home} :
                  LET l == BinList(Self, b)
                  IN  (\E i \in DOMAIN l : l[i] = n) <=> b = home
(* a bin whose list holds two free nodes, the newer one at the head *)
C18_Witness ==
    \E b \in Bins :
        /\ Len(BinList(Self, b)) = 2
        /\ m_nodes[BinList(Self, b)[2]].binListPrev = BinList(Self, b)[1]

(* C19: after every public operation every used node has                  *)
(* binListPrev = UNUSED and binListNext = UNUSED, including a node that    *)
(* allocate popped from a bin holding two or more free nodes.              *)
C19_Original ==
    \A n \in UsedLive(Self) :
        /\ m_nodes[n].binListPrev = NODE_UNUSED
        /\ m_nodes[n].binListNext = NODE_UNUSED
(* C19 as the code has it: every used node has binListPrev = UNUSED; the   *)
(* node a successful allocate pops keeps the binListNext it had as head of *)
(* its bin: UNUSED when it was alone there, else the node that has become  *)
(* the head; and no step changes the bin links of a node that stays used.  *)
C19_Amended ==
    [][/\ \A n \in UsedLive(Self)' : m_nodes'[n].binListPrev = NODE_UNUSED
       /\ \A n \in UsedLive(Self) \cap UsedLive(Self)' :
             m_nodes'[n].binListNext = m_nodes[n].binListNext
       /\ (lastOp'.op = "allocate" /\ Succeeded(res')) =>
             LET n == res'.metadata
                 l == BinList(Self, uintToFloatRoundDown(m_nodes[n].dataSize))
             IN  /\ l[1] = n
                 /\ n \in UsedLive(Self)'
                 /\ m_nodes'[n].binListNext
                       = IF Len(l) >= 2 THEN l[2] ELSE NODE_UNUSED]_vars
(* a used node popped from a bin of two, still pointing at the other one *)
C19_Witness ==
    /\ lastOp.op = "allocate" /\ Succeeded(res)
    /\ m_nodes[res.metadata].used
    /\ m_nodes[res.metadata].binListNext # NODE_UNUSED
    /\ m_nodes[res.metadata].binListNext \in FreeLive(Self)

(* C20: after every public operation the two-level bitmap mirrors bin      *)
(* occupancy: bit j of m_usedBins[i] is set iff m_binIndices[i*8+j] is not *)
(* UNUSED, and bit i of m_usedBinsTop is set iff m_usedBins[i] is not 0.   *)
C20_BitmapMirrorsBins ==
    \A i \in 0..(NUM_TOP_BINS - 1) :
        /\ \A j \in 0..(BINS_PER_LEAF - 1) :
              (j \in m_usedBins[i])
                 <=> (m_binIndices[ShiftLeft(i, TOP_BINS_INDEX_SHIFT) + j]
                         # NODE_UNUSED)
        /\ (i \in m_usedBinsTop) <=> (m_usedBins[i] # {})
(* an allocation has emptied the last bin of one leaf byte and filled a    *)
(* bin of another                                                          *)
C20_Witness ==
    /\ lastOp.op = "allocate" /\ Succeeded(res)
    /\ m_usedBinsTop # {}
    /\ ShiftRight(uintToFloatRoundDown(m_size), TOP_BINS_INDEX_SHIFT)
          \notin m_usedBinsTop

(* the nodes in use by the allocator, found without the freelist: the      *)
(* nodes of the outstanding allocations and the nodes on the bin lists     *)
HandedOut == {x.metadata : x \in allocs}
OnBinLists ==
    LET heads == {m_binIndices[b] : b \in Bins} \ {NODE_UNUSED}
    IN  UNION {LET l == BinFrom(Self, h, m_maxAllocs + 1)
               IN  {l[i] : i \in DOMAIN l} : h \in heads}

(* C21: after every public operation the number of live nodes (free plus   *)
(* used, the nodes on the neighbor chain) is max_allocs - 1 - free_offset, *)
(* and the pool indices of the live nodes together with                    *)
(* free_nodes[0..free_offset] are pairwise distinct.                       *)
C21_PoolAccounting ==
    LET live == HandedOut \cup OnBinLists
        c == Chain(Self)
    IN  /\ Cardinality(live) = m_maxAllocs - 1 - m_freeOffset
        /\ {c[i] : i \in DOMAIN c} = live
        /\ Len(c) = Cardinality(live)
        /\ Cardinality(HandedOut) = Cardinality(allocs)
        /\ HandedOut \cap OnBinLists = {}
        /\ \A i, j \in 0..m_freeOffset :
              i # j => m_freeNodes[i] # m_freeNodes[j]
        /\ \A i \in 0..m_freeOffset :
              m_freeNodes[i] \in Slots(Self) \ live
(* a free has absorbed one neighbour: two slots went back on the freelist  *)
(* and one was taken for the combined node                                 *)
C21_Witness ==
    /\ lastOp.op = "free" /\ lastOp.merged = 1
    /\ allocs # {}
    /\ m_freeOffset = m_maxAllocs - 3

(* C22: after every public operation free_storage is the sum of data_size  *)
(* over the live nodes that are free.                                      *)
C22_FreeStorageIsFreeSum ==
    /\ m_freeStorage = SumSizes(Self, FreeLive(Self))
    /\ FreeLive(Self) = OnBinLists
(* a free has taken a neighbour off its bin and put the combined node in,  *)
(* with another allocation still holding part of the range                 *)
C22_Witness ==
    /\ lastOp.op = "free" /\ lastOp.merged >= 1
    /\ allocs # {}
    /\ m_freeStorage > 1
    /\ m_freeStorage < m_size

(* C23: a successful allocate(S) takes the head node of the numerically    *)
(* lowest non-empty bin of index >= round_up(S), never a node of a higher  *)
(* bin while a lower suitable bin is non-empty; the head is the node most  *)
(* recently inserted, since a node enters a bin list only at its head.     *)
C23_LowestBinHead ==
    [][/\ (lastOp'.op = "allocate" /\ Succeeded(res')) =>
             LET suitable == SuitableBins(Self, lastOp'.size)
             IN  /\ suitable # {}
                 /\ res'.metadata = m_binIndices[MinOf(suitable)]
                 /\ res'.metadata = BinList(Self, MinOf(suitable))[1]
                 /\ res'.offset = m_nodes[res'.metadata].dataOffset
       /\ \A b \in {x \in Bins : m_binIndices'[x] # NODE_UNUSED} :
             LET old == BinList(Self, b)
                 new == BinList(Self, b)'
             IN  \A i \in 2..Len(new) :
                     \E k \in DOMAIN old : old[k] = new[i]]_vars
(* a zero-size free node was reused while the larger remainder region in   *)
(* a higher bin was left whole                                             *)
C23_Witness ==
    /\ lastOp.op = "allocate" /\ lastOp.size = 0 /\ Succeeded(res)
    /\ snap # NoSnap
    /\ Cardinality({t \in 0..(NUM_TOP_BINS - 1) : snap.usedBins[t] # {}}) >= 2
    /\ m_nodes[res.metadata].dataOffset = 0
    /\ \E n \in FreeLive(Self) : m_nodes[n].dataSize > 1

(* C24: in every successful allocate(S) the free node chosen has           *)
(* data_size >= S, so the remainder total - S does not underflow; the      *)
(* allocated node ends with data_size exactly S; and a remainder node is   *)
(* created iff total - S > 0.                                              *)
C24_ChosenNodeFits ==
    [][(lastOp'.op = "allocate" /\ Succeeded(res')) =>
          LET n == res'.metadata
              S == lastOp'.size
              total == m_nodes[n].dataSize
              next == m_nodes'[n].neighborNext
              created == m_freeOffset' = m_freeOffset - 1
          IN  /\ n \in FreeLive(Self)
              /\ total >= S
              /\ m_nodes'[n].used
              /\ m_nodes'[n].dataSize = S
              /\ created <=> (total - S > 0)
              /\ created \/ (m_freeOffset' = m_freeOffset
                             /\ next = m_nodes[n].neighborNext
                             /\ FreeLive(Self)' = FreeLive(Self) \ {n})
              /\ created =>
                    /\ next \in FreeLive(Self)' \ LiveNodes(Self)
                    /\ m_nodes'[next].dataSize = total - S
                    /\ m_nodes'[next].dataOffset = m_nodes[n].dataOffset + S
                    /\ m_nodes'[next].neighborPrev = n]_vars
(* a large request was cut from a larger free node and left a remainder *)
C24_Witness ==
    /\ lastOp.op = "allocate" /\ lastOp.size = MaxSize - 2 /\ Succeeded(res)
    /\ m_nodes[res.metadata].dataSize = MaxSize - 2
    /\ m_nodes[res.metadata].neighborNext \in FreeLive(Self)

(* C25: for max_allocs >= 2, in every state reachable through init, reset, *)
(* allocate and free, free_offset is in [0, max_allocs - 2]; every         *)
(* freelist pop and push indexes inside free_nodes; at most                *)
(* max_allocs - 1 nodes are live, the slot stored at free_nodes[0] never   *)
(* being handed out.                                                       *)
C25_FreeOffsetInRange ==
    [][LET live == (HandedOut \cup OnBinLists)'
       IN  /\ m_maxAllocs >= 2 /\ m_maxAllocs' = m_maxAllocs
           /\ m_freeOffset \in 0..(m_maxAllocs - 2)
           /\ m_freeOffset' \in 0..(m_maxAllocs - 2)
           /\ DOMAIN m_freeNodes' = 0..(m_maxAllocs - 1)
           /\ m_freeNodes[0] = m_maxAllocs - 1
           /\ m_freeNodes'[0] = m_maxAllocs - 1
           /\ (m_maxAllocs - 1) \notin live
           /\ Cardinality(live) <= m_maxAllocs - 1
           /\ (lastOp'.op = "allocate" /\ m_freeOffset' # m_freeOffset) =>
                 /\ m_freeOffset >= 1
                 /\ m_freeOffset' = m_freeOffset - 1
           /\ lastOp'.op = "free" =>
                 /\ m_freeOffset + lastOp'.merged + 1 <= m_maxAllocs - 1
                 /\ m_freeOffset' = m_freeOffset + lastOp'.merged
                 /\ \A i \in 0..m_freeOffset : m_freeNodes'[i] = m_freeNodes[i]
           /\ lastOp'.op = "reset" =>
                 /\ m_freeOffset' = m_maxAllocs - 2
                 /\ m_freeNodes'[m_maxAllocs - 1] = 0]_vars
(* the pool is at its limit: max_allocs - 1 live nodes, free_offset 0, and *)
(* allocate refused without touching free_nodes[0]                         *)
C25_Witness ==
    /\ lastOp.op = "allocate" /\ ~Succeeded(res)
    /\ m_maxAllocs >= 3
    /\ m_freeOffset = 0
    /\ Cardinality(HandedOut \cup OnBinLists) = m_maxAllocs - 1
    /\ m_freeStorage > lastOp.size

(* C26: an outstanding allocation stays valid until it is itself freed:    *)
(* the node at its metadata index keeps used = true and the data_offset    *)
(* and data_size it had when allocate returned, across every later         *)
(* allocate and every free of another allocation, and distinct outstanding *)
(* allocations have distinct metadata indices.                             *)
C26_OutstandingStaysValid ==
    [][/\ \A x \in allocs' :
             /\ m_nodes'[x.metadata].used
             /\ m_nodes'[x.metadata].dataOffset = x.offset
             /\ m_nodes'[x.metadata].dataSize = x.size
             /\ x.metadata \notin StackSlots(Self)'
       /\ \A x, y \in allocs' : x.metadata = y.metadata => x = y
       /\ (lastOp'.op = "allocate" /\ Succeeded(res')) =>
             /\ res'.metadata \notin HandedOut
             /\ allocs' = allocs \cup {[offset |-> res'.offset,
                                        metadata |-> res'.metadata,
                                        size |-> lastOp'.size]}
       /\ (lastOp'.op = "allocate" /\ ~Succeeded(res')) => allocs' = allocs
       /\ lastOp'.op = "free" =>
             /\ Cardinality(allocs') = Cardinality(allocs) - 1
             /\ allocs' \subseteq allocs
       /\ lastOp'.op = "report" => allocs' = allocs]_vars
(* one allocation was freed and its region handed out again while another  *)
(* allocation stayed outstanding                                           *)
C26_Witness ==
    /\ lastOp.op = "allocate" /\ Succeeded(res)
    /\ nFrees >= 1
    /\ Cardinality(allocs) >= 2
    /\ \E x \in allocs : x.metadata # res.metadata /\ x.size > 0

====
